---- MODULE Spec2Model ----
(***************************************************************************)
(* Model of the BirchVfd serial display driver (src/src/main.rs).          *)
(*                                                                         *)
(* State: the display geometry, the stored cursor, the bytes handed to the *)
(* serial port by the call in progress (or the last one), the position of  *)
(* the caller inside write_multi_line's loop, and the outcome of the last  *)
(* call.  Every u8 expression of the source is evaluated with its width:   *)
(* a build with overflow checks aborts on overflow, a build without them   *)
(* wraps modulo 256.                                                       *)
(***************************************************************************)
EXTENDS Integers, Sequences, FiniteSets, TLC

VARIABLES width, height, overflow_checks, cursor_x, cursor_y,
          pc, op, pre, log, remaining, result

vars == <<width, height, overflow_checks, cursor_x, cursor_y,
          pc, op, pre, log, remaining, result>>

-----------------------------------------------------------------------------
(* Bounds of the model *)

MaxW == 2
MaxH == 2
MaxLen == 4
MaxK == 2

-----------------------------------------------------------------------------
(* Program constants *)

CMD_CLEAR == 12
CMD_ESC == 27
CMD_US == 31
DOLLAR == 36
AT_SIGN == 64
U8_MODULUS == 256
DEMO_WIDTH == 20
DEMO_HEIGHT == 2

-----------------------------------------------------------------------------
(* u8 arithmetic *)

U8(n) == n % U8_MODULUS

Ovf(n) == n < 0 \/ n >= U8_MODULUS

Min(a, b) == IF a < b THEN a ELSE b

-----------------------------------------------------------------------------
(* Texts: valid UTF-8 byte sequences.  Bytes below 128 are one-byte       *)
(* characters, 195 169 is the two-byte character U+00E9.                   *)

AsciiText(n) == [i \in 1..n |-> 33 + (i % 90)]

MixedText(n, k) ==
    [i \in 1..n |-> IF i = k THEN 195 ELSE IF i = k + 1 THEN 169 ELSE 33 + (i % 90)]

ScenarioLens == {6, 25, 35, 41}

LongLens == {U8_MODULUS, U8_MODULUS + MaxW + 1}

Lens == (0..MaxLen) \cup ScenarioLens \cup LongLens

MixedTexts ==
    UNION {{MixedText(n, k) : k \in 1..Min(MaxK, n - 1)} : n \in 2..MaxLen}

Texts == {AsciiText(n) : n \in Lens} \cup MixedTexts

Geometries ==
    {<<w, h>> : w \in 1..MaxW, h \in 1..MaxH} \cup {<<DEMO_WIDTH, DEMO_HEIGHT>>}

CoordArgs(limit) == {n \in {0, 1, limit - 1, limit, limit + 1, 255} : n \in 0..255}

-----------------------------------------------------------------------------
(* String::from_utf8_lossy: every maximal invalid part of the input is     *)
(* replaced by U+FFFD (239 191 189).                                       *)

REPLACEMENT == <<239, 191, 189>>

IsCont(b) == b >= 128 /\ b <= 191

NeedConts(b) ==
    IF b >= 194 /\ b <= 223 THEN 1
    ELSE IF b >= 224 /\ b <= 239 THEN 2
    ELSE IF b >= 240 /\ b <= 244 THEN 3
    ELSE 0

RECURSIVE ContRun(_, _, _)
ContRun(s, i, n) ==
    IF n = 0 \/ i > Len(s) \/ ~IsCont(s[i]) THEN 0
    ELSE 1 + ContRun(s, i + 1, n - 1)

RECURSIVE LossyFrom(_, _)
LossyFrom(s, i) ==
    IF i > Len(s) THEN <<>>
    ELSE IF s[i] < 128 THEN <<s[i]>> \o LossyFrom(s, i + 1)
    ELSE LET need == NeedConts(s[i])
             have == ContRun(s, i + 1, need)
         IN  IF need > 0 /\ have = need
             THEN SubSeq(s, i, i + need) \o LossyFrom(s, i + need + 1)
             ELSE REPLACEMENT \o LossyFrom(s, i + 1 + have)

from_utf8_lossy(s) == LossyFrom(s, 1)

-----------------------------------------------------------------------------
(* Port writes: one record per write_all or flush call *)

Cmd(bytes, ok) == [kind |-> "cmd", bytes |-> bytes, ok |-> ok]
Txt(bytes, ok) == [kind |-> "text", bytes |-> bytes, ok |-> ok]
Flush(ok) == [kind |-> "flush", bytes |-> <<>>, ok |-> ok]

Res(k) == [kind |-> k, capacity |-> 0, provided |-> 0]

NoOp == [name |-> "new", x |-> 0, y |-> 0, text |-> <<>>,
         can_wrap_around |-> FALSE, can_truncate |-> FALSE]

get_cursor == <<cursor_x, cursor_y>>

-----------------------------------------------------------------------------
(* BirchVfd::new followed by initialize, both successful *)

Init ==
    /\ \E g \in Geometries : width = g[1] /\ height = g[2]
    /\ overflow_checks \in BOOLEAN
    /\ cursor_x = 1
    /\ cursor_y = 1
    /\ pc = "idle"
    /\ op = NoOp
    /\ pre = <<1, 1>>
    /\ log = <<Cmd(<<CMD_ESC, AT_SIGN>>, TRUE)>>
    /\ remaining = <<>>
    /\ result = Res("Ok")

-----------------------------------------------------------------------------
(* set_cursor: the stored cursor is clamped and assigned first, then the   *)
(* command is built from the arguments and written.                        *)

set_cursor_unclamped(x, y, ok) ==
    LET wx == x + 1
        wy == y + 1
    IN  IF overflow_checks /\ (Ovf(wx) \/ Ovf(wy))
        THEN [cx |-> x, cy |-> y, entries |-> <<>>, outcome |-> "Panic"]
        ELSE [cx |-> x, cy |-> y,
              entries |-> <<Cmd(<<CMD_US, DOLLAR, U8(wx), U8(wy)>>, ok)>>,
              outcome |-> IF ok THEN "Ok" ELSE "Err"]

set_cursor(x, y, ok) ==
    LET nx == IF x > width THEN width ELSE x
        ny == IF y > height THEN height ELSE y
        wx == x + 1
        wy == y + 1
    IN  IF overflow_checks /\ (Ovf(wx) \/ Ovf(wy))
        THEN [cx |-> nx, cy |-> ny, entries |-> <<>>, outcome |-> "Panic"]
        ELSE [cx |-> nx, cy |-> ny,
              entries |-> <<Cmd(<<CMD_US, DOLLAR, U8(wx), U8(wy)>>, ok)>>,
              outcome |-> IF ok THEN "Ok" ELSE "Err"]

(* get_text_fit: classification of a text against the space left *)

get_text_fit_no_truncate(text, can_wrap_around, can_truncate) ==
    LET text_length == U8(Len(text))
        a_space == width - cursor_x
        space_left_on_line == U8(a_space)
        a_row == cursor_y + 1
        a_lines == height - U8(a_row)
        lines_left == U8(a_lines)
        a_mul == lines_left * width
        a_sum == space_left_on_line + U8(a_mul)
        short == IF can_wrap_around THEN "NeedsWrapAround" ELSE "TooLong"
    IN  IF overflow_checks /\ (Ovf(a_space) \/ Ovf(a_row) \/ Ovf(a_lines)) THEN "Panic"
        ELSE IF text_length <= width THEN "OneLine"
        ELSE IF lines_left <= 0 THEN short
        ELSE IF overflow_checks /\ (Ovf(a_mul) \/ Ovf(a_sum)) THEN "Panic"
        ELSE IF U8(a_sum) < text_length THEN short
        ELSE "NeedsWrap"

get_text_fit(text, can_wrap_around, can_truncate) ==
    LET text_length == U8(Len(text))
        a_space == width - cursor_x
        space_left_on_line == U8(a_space)
        a_row == cursor_y + 1
        a_lines == height - U8(a_row)
        lines_left == U8(a_lines)
        a_mul == lines_left * width
        a_sum == space_left_on_line + U8(a_mul)
        short == IF can_wrap_around THEN "NeedsWrapAround"
                 ELSE IF can_truncate THEN "NeedsWrap"
                 ELSE "TooLong"
    IN  IF overflow_checks /\ (Ovf(a_space) \/ Ovf(a_row) \/ Ovf(a_lines)) THEN "Panic"
        ELSE IF text_length <= width THEN "OneLine"
        ELSE IF lines_left <= 0 THEN short
        ELSE IF overflow_checks /\ (Ovf(a_mul) \/ Ovf(a_sum)) THEN "Panic"
        ELSE IF U8(a_sum) < text_length THEN short
        ELSE "NeedsWrap"

(* The error value built in the TooLong arms of writeln and write_text *)

TooLongError_remaining(text) ==
    [kind |-> "TextTooLong",
     capacity |-> (width - cursor_x) + (height - cursor_y - 1) * width,
     provided |-> Len(text)]

TooLongError(text) ==
    [kind |-> "TextTooLong", capacity |-> width * height, provided |-> Len(text)]

(* write: the transport failure is turned into an abort by expect *)

write(bytes, ok) ==
    [entries |-> <<Txt(bytes, ok)>>, outcome |-> IF ok THEN "Ok" ELSE "Panic"]

-----------------------------------------------------------------------------
(* Operations *)

Begin(name, x, y, text, wa, tr) ==
    /\ op' = [name |-> name, x |-> x, y |-> y, text |-> text,
              can_wrap_around |-> wa, can_truncate |-> tr]
    /\ pre' = <<cursor_x, cursor_y>>

Finish(kind) ==
    /\ pc' = IF kind = "Panic" THEN "panicked" ELSE "idle"
    /\ result' = Res(kind)

SetCursor ==
    /\ pc = "idle"
    /\ \E x \in CoordArgs(width), y \in CoordArgs(height), ok \in BOOLEAN :
         LET r == set_cursor(x, y, ok)
         IN  /\ Begin("set_cursor", x, y, <<>>, FALSE, FALSE)
             /\ cursor_x' = r.cx
             /\ cursor_y' = r.cy
             /\ log' = r.entries
             /\ Finish(r.outcome)
    /\ remaining' = <<>>
    /\ UNCHANGED <<width, height, overflow_checks>>

clear_flush_fatal ==
    /\ pc = "idle"
    /\ \E ok \in BOOLEAN, flush_ok \in BOOLEAN :
         /\ Begin("clear", 0, 0, <<>>, FALSE, FALSE)
         /\ IF ok
            THEN /\ log' = <<Cmd(<<CMD_CLEAR>>, TRUE), Flush(flush_ok)>>
                 /\ Finish(IF flush_ok THEN "Ok" ELSE "Err")
            ELSE /\ log' = <<Cmd(<<CMD_CLEAR>>, FALSE)>>
                 /\ Finish("Err")
    /\ remaining' = <<>>
    /\ UNCHANGED <<width, height, overflow_checks, cursor_x, cursor_y>>

clear ==
    /\ pc = "idle"
    /\ \E ok \in BOOLEAN, flush_ok \in BOOLEAN :
         /\ Begin("clear", 0, 0, <<>>, FALSE, FALSE)
         /\ IF ok
            THEN /\ log' = <<Cmd(<<CMD_CLEAR>>, TRUE), Flush(flush_ok)>>
                 /\ Finish("Ok")
            ELSE /\ log' = <<Cmd(<<CMD_CLEAR>>, FALSE)>>
                 /\ Finish("Err")
    /\ remaining' = <<>>
    /\ UNCHANGED <<width, height, overflow_checks, cursor_x, cursor_y>>

writeln ==
    /\ pc = "idle"
    /\ \E text \in Texts, ok \in BOOLEAN :
         LET fit == get_text_fit(text, FALSE, FALSE)
         IN  /\ Begin("writeln", 0, 0, text, FALSE, FALSE)
             /\ CASE fit = "Panic" ->
                       /\ log' = <<>>
                       /\ Finish("Panic")
                  [] fit = "OneLine" ->
                       LET w == write(text, ok)
                       IN  /\ log' = w.entries
                           /\ Finish(w.outcome)
                  [] fit \in {"NeedsWrap", "NeedsWrapAround"} ->
                       /\ log' = <<>>
                       /\ Finish("NeedsWrapError")
                  [] fit = "TooLong" ->
                       /\ log' = <<>>
                       /\ pc' = "idle"
                       /\ result' = TooLongError(text)
    /\ remaining' = <<>>
    /\ UNCHANGED <<width, height, overflow_checks, cursor_x, cursor_y>>

(* write_text up to the call of write_multi_line; the loop of              *)
(* write_multi_line runs one pass per step of WmlPass.                    *)

write_text ==
    /\ pc = "idle"
    /\ \E text \in Texts, wa \in BOOLEAN, tr \in BOOLEAN, ok \in BOOLEAN :
         LET fit == get_text_fit(text, wa, tr)
         IN  /\ Begin("write_text", 0, 0, text, wa, tr)
             /\ CASE fit = "Panic" ->
                       /\ log' = <<>>
                       /\ remaining' = <<>>
                       /\ Finish("Panic")
                  [] fit = "OneLine" ->
                       LET w == write(text, ok)
                       IN  /\ log' = w.entries
                           /\ remaining' = <<>>
                           /\ Finish(w.outcome)
                  [] fit \in {"NeedsWrap", "NeedsWrapAround"} ->
                       /\ log' = <<>>
                       /\ remaining' = text
                       /\ IF text = <<>>
                          THEN Finish("Ok")
                          ELSE /\ pc' = "wml"
                               /\ result' = Res("Running")
                  [] fit = "TooLong" ->
                       /\ log' = <<>>
                       /\ remaining' = <<>>
                       /\ pc' = "idle"
                       /\ result' = TooLongError(text)
    /\ UNCHANGED <<width, height, overflow_checks, cursor_x, cursor_y>>

(* One pass of the while loop of write_multi_line.  An Err returned by     *)
(* write_multi_line is turned into an abort by the expect in write_text.   *)

WmlStep_keeps_column(ok1, ok2) ==
    LET a_space == width - cursor_x
        space_available == U8(a_space)
        bytes_to_take == Min(space_available, Len(remaining))
        chunk == from_utf8_lossy(SubSeq(remaining, 1, bytes_to_take))
        w == write(chunk, ok1)
        rest == SubSeq(remaining, bytes_to_take + 1, Len(remaining))
        a_row == cursor_y + 1
        new_line_available == U8(a_row) < height
        park == set_cursor(width, height, ok2)
        next_line == set_cursor(cursor_x, U8(a_row), ok2)
        Out(c, entries, r, kind) ==
            [cx |-> c[1], cy |-> c[2], entries |-> entries, rest |-> r, kind |-> kind]
        here == <<cursor_x, cursor_y>>
    IN  IF overflow_checks /\ Ovf(a_space) THEN Out(here, <<>>, remaining, "Panic")
        ELSE IF w.outcome = "Panic" THEN Out(here, w.entries, remaining, "Panic")
        ELSE IF rest = <<>> THEN Out(here, w.entries, rest, "Ok")
        ELSE IF overflow_checks /\ Ovf(a_row) THEN Out(here, w.entries, rest, "Panic")
        ELSE IF ~new_line_available /\ op.can_truncate
        THEN Out(<<park.cx, park.cy>>, w.entries \o park.entries, rest,
                 IF park.outcome = "Ok" THEN "Ok" ELSE "Panic")
        ELSE IF ~new_line_available /\ ~op.can_wrap_around
        THEN Out(<<park.cx, park.cy>>, w.entries \o park.entries, rest, "Panic")
        ELSE Out(<<next_line.cx, next_line.cy>>, w.entries \o next_line.entries, rest,
                 IF next_line.outcome = "Ok" THEN "Running" ELSE "Panic")

WmlStep(ok1, ok2) ==
    LET a_space == width - cursor_x
        space_available == U8(a_space)
        bytes_to_take == Min(space_available, Len(remaining))
        chunk == from_utf8_lossy(SubSeq(remaining, 1, bytes_to_take))
        w == write(chunk, ok1)
        rest == SubSeq(remaining, bytes_to_take + 1, Len(remaining))
        a_row == cursor_y + 1
        new_line_available == U8(a_row) < height
        park == set_cursor(width, height, ok2)
        next_line == set_cursor(0, U8(a_row), ok2)
        Out(c, entries, r, kind) ==
            [cx |-> c[1], cy |-> c[2], entries |-> entries, rest |-> r, kind |-> kind]
        here == <<cursor_x, cursor_y>>
    IN  IF overflow_checks /\ Ovf(a_space) THEN Out(here, <<>>, remaining, "Panic")
        ELSE IF w.outcome = "Panic" THEN Out(here, w.entries, remaining, "Panic")
        ELSE IF rest = <<>> THEN Out(here, w.entries, rest, "Ok")
        ELSE IF overflow_checks /\ Ovf(a_row) THEN Out(here, w.entries, rest, "Panic")
        ELSE IF ~new_line_available /\ op.can_truncate
        THEN Out(<<park.cx, park.cy>>, w.entries \o park.entries, rest,
                 IF park.outcome = "Ok" THEN "Ok" ELSE "Panic")
        ELSE IF ~new_line_available /\ ~op.can_wrap_around
        THEN Out(<<park.cx, park.cy>>, w.entries \o park.entries, rest, "Panic")
        ELSE Out(<<next_line.cx, next_line.cy>>, w.entries \o next_line.entries, rest,
                 IF next_line.outcome = "Ok" THEN "Running" ELSE "Panic")

WmlPass ==
    /\ pc = "wml"
    /\ \E ok1 \in BOOLEAN, ok2 \in BOOLEAN :
         LET s == WmlStep(ok1, ok2)
         IN  /\ cursor_x' = s.cx
             /\ cursor_y' = s.cy
             /\ log' = log \o s.entries
             /\ IF s.kind = "Running"
                THEN /\ remaining' = s.rest
                     /\ UNCHANGED <<pc, result>>
                ELSE /\ remaining' = <<>>
                     /\ Finish(s.kind)
    /\ UNCHANGED <<width, height, overflow_checks, op, pre>>

Next == SetCursor \/ clear \/ writeln \/ write_text \/ WmlPass

Spec == Init /\ [][Next]_vars

-----------------------------------------------------------------------------
(* Vocabulary of the properties *)

Returned(names) == pc = "idle" /\ op.name \in names

AllOk == \A i \in 1..Len(log) : log[i].ok

SomeWriteFailed == \E i \in 1..Len(log) : log[i].kind # "flush" /\ ~log[i].ok

CmdEntries == SelectSeq(log, LAMBDA e : e.kind = "cmd")

TextEntries == SelectSeq(log, LAMBDA e : e.kind = "text")

SetCursorBytes(c, r) == <<CMD_US, DOLLAR, c + 1, r + 1>>

(* The cursor of a device that is home after initialize and clear, obeys   *)
(* set-cursor commands and advances one column per text byte received.     *)

RECURSIVE DeviceAfter(_, _, _)
DeviceAfter(pos, entries, i) ==
    IF i > Len(entries) THEN pos
    ELSE LET e == entries[i]
             next == IF ~e.ok \/ e.kind = "flush" THEN pos
                     ELSE IF e.kind = "text" THEN <<pos[1] + Len(e.bytes), pos[2]>>
                     ELSE IF Len(e.bytes) = 4 THEN <<e.bytes[3] - 1, e.bytes[4] - 1>>
                     ELSE <<0, 0>>
         IN  DeviceAfter(next, entries, i + 1)

-----------------------------------------------------------------------------
(* C1: the stored cursor always lies in [0, width] x [0, height], and a    *)
(* set_cursor call stores the request clamped to the nearest edge: it      *)
(* returns an error only for a failed transport write, never for an        *)
(* out-of-range argument.                                                  *)

C2_WireEqualsStoredCursor ==
    op.name = "set_cursor" =>
        /\ Len(log) = 1
        /\ log[1].bytes = SetCursorBytes(cursor_x, cursor_y)

(* C3: after any clear call the stored cursor is (0, 0), whether the flush *)
(* succeeded or failed.                                                    *)

C3_ClearHomesCursor ==
    Returned({"clear"}) => get_cursor = <<0, 0>>

(* C4: the stored cursor follows the cursor of the modelled device: if the *)
(* two agree before a text-writing call whose writes all reach the device, *)
(* they agree after it.                                                    *)

C4_StoredCursorTracksDevice ==
    (Returned({"writeln", "write_text"}) /\ AllOk) =>
        DeviceAfter(pre, log, 1) = get_cursor

(* The remaining capacity at the cursor the call started from, in          *)
(* unbounded integers.                                                     *)

RemainingCapacity == (width - pre[1]) + (height - pre[2] - 1) * width

CallOver(names) == op.name \in names /\ pc # "wml"

(* C5: with truncation and wrap-around disabled, a text longer than width  *)
(* and longer than the remaining capacity is refused with the              *)
(* text-too-long error: no byte is written and the cursor is unchanged.    *)

C5_TooLongIsRefused ==
    (/\ CallOver({"write_text"})
     /\ ~op.can_truncate
     /\ ~op.can_wrap_around
     /\ Len(op.text) > width
     /\ RemainingCapacity < Len(op.text)) =>
        /\ result.kind = "TextTooLong"
        /\ log = <<>>
        /\ get_cursor = pre

(* C6 as stated: the text-too-long error carries the remaining capacity    *)
(* computed from the cursor and the byte length of the text.               *)

C6_ErrorReportsRemainingCapacity ==
    result.kind = "TextTooLong" =>
        /\ result.capacity = RemainingCapacity
        /\ result.provided = Len(op.text)

(* C6 as amended: the text-too-long error carries the capacity of the      *)
(* whole display, width * height, whatever the cursor, and the byte length *)
(* of the text; nothing was written and the cursor is unchanged.           *)

C6_ErrorReportsDisplayCapacity ==
    result.kind = "TextTooLong" =>
        /\ result.capacity = width * height
        /\ result.provided = Len(op.text)
        /\ log = <<>>
        /\ get_cursor = pre

C6_Witness ==
    /\ Returned({"write_text"})
    /\ width = DEMO_WIDTH
    /\ height = DEMO_HEIGHT
    /\ pre = <<0, 1>>
    /\ Len(op.text) = 25
    /\ ~op.can_truncate
    /\ result = [kind |-> "TextTooLong", capacity |-> 40, provided |-> 25]

(* C7: a text no longer than width is written verbatim as one write by     *)
(* writeln and write_text, from every cursor and under every flag, with no *)
(* set-cursor command, an unchanged cursor and the result Ok.              *)

C7_ShortTextIsOneLine ==
    (/\ CallOver({"writeln", "write_text"})
     /\ Len(op.text) <= width
     /\ AllOk) =>
        /\ log = <<Txt(op.text, TRUE)>>
        /\ get_cursor = pre
        /\ result.kind = "Ok"

(* The writes C8 describes: a chunk of min(bytes left, width - column),    *)
(* then, while bytes remain, a set-cursor command to column 0 of the next  *)
(* row and the next chunk.                                                 *)

RECURSIVE WrapLog(_, _, _)
WrapLog(text, cx, cy) ==
    LET take == Min(Len(text), width - cx)
        rest == SubSeq(text, take + 1, Len(text))
    IN  <<Txt(SubSeq(text, 1, take), TRUE)>>
        \o (IF rest = <<>> THEN <<>>
            ELSE <<Cmd(SetCursorBytes(0, cy + 1), TRUE)>> \o WrapLog(rest, 0, cy + 1))

(* C8: a text longer than width that fits the remaining capacity reaches   *)
(* the transport as the chunks of WrapLog, which concatenated equal the    *)
(* text byte for byte, and the call returns Ok.                            *)

C8_WrapWritesTextInChunks ==
    (/\ CallOver({"write_text"})
     /\ Len(op.text) > width
     /\ Len(op.text) <= RemainingCapacity
     /\ AllOk) =>
        /\ log = WrapLog(op.text, pre[1], pre[2])
        /\ result.kind = "Ok"

(* C9 as stated: with truncation allowed, a text longer than width placed  *)
(* at a column smaller than width is cut to the current row: one write of  *)
(* the first width - cursor_x bytes and nothing else.                      *)

C9_Case ==
    /\ op.name = "write_text"
    /\ op.can_truncate
    /\ U8(Len(op.text)) > width
    /\ pre[1] < width

C9_OneLineTruncation ==
    (C9_Case /\ pre[2] < height /\ pc = "idle" /\ AllOk) =>
        log = <<Txt(SubSeq(op.text, 1, width - pre[1]), TRUE)>>

(* C9 as amended: in that case the placement wraps.  The first write is    *)
(* the first width - cursor_x bytes, lossily decoded; a set-cursor command *)
(* always follows it, to column 0 of the next row when there is one, after *)
(* which the following bytes are written there, and to (width, height)     *)
(* when there is none, after which the rest of the text is dropped and the *)
(* call returns Ok.  A call that returns has sent that command.            *)

C9_TruncationWrapsFirst ==
    LET first == width - pre[1]
        below == pre[2] + 1 < height
        len == Len(op.text)
    IN  C9_Case =>
          /\ Len(log) >= 1 =>
               log[1] = Txt(from_utf8_lossy(SubSeq(op.text, 1, first)), log[1].ok)
          /\ Len(log) >= 2 =>
               /\ log[2].kind = "cmd"
               /\ log[2].bytes = IF below THEN SetCursorBytes(0, pre[2] + 1)
                                 ELSE SetCursorBytes(width, height)
          /\ (Len(log) >= 3 /\ below) =>
               log[3] = Txt(from_utf8_lossy(SubSeq(op.text, first + 1,
                                                   Min(len, first + width))),
                            log[3].ok)
          /\ (pc = "idle" /\ AllOk) =>
               /\ Len(log) >= 2
               /\ result.kind = "Ok"
               /\ ~below => (Len(log) = 2 /\ get_cursor = <<width, height>>)

C9_Witness ==
    /\ Returned({"write_text"})
    /\ C9_Case
    /\ ~op.can_wrap_around
    /\ width = DEMO_WIDTH
    /\ height = DEMO_HEIGHT
    /\ pre = <<0, 0>>
    /\ Len(op.text) = 35
    /\ AllOk
    /\ Len(log) = 3
    /\ log[2].bytes = <<CMD_US, DOLLAR, 1, 2>>
    /\ Len(log[3].bytes) = 15
    /\ result.kind = "Ok"

(* C10: a failed transport write makes the call return an error value to   *)
(* its caller, without aborting, and nothing is written after the failure. *)

C10_WriteFailureIsReturned ==
    SomeWriteFailed =>
        /\ pc = "idle"
        /\ result.kind = "Err"
        /\ \A i \in 1..(Len(log) - 1) : log[i].ok

(* C11: clear writes the single byte 0C; it returns Ok whenever that write *)
(* succeeds, also when the flush after it fails, and an error only when    *)
(* the write of the byte fails, in which case nothing is flushed.          *)

C11_ClearFlushFailureIsNotFatal ==
    op.name = "clear" =>
        /\ pc = "idle"
        /\ Len(log) >= 1
        /\ log[1].kind = "cmd"
        /\ log[1].bytes = <<CMD_CLEAR>>
        /\ \A i \in 2..Len(log) : log[i].kind = "flush"
        /\ log[1].ok => (Len(log) = 2 /\ result.kind = "Ok")
        /\ ~log[1].ok => (Len(log) = 1 /\ result.kind = "Err")

C11_Witness ==
    /\ Returned({"clear"})
    /\ log = <<Cmd(<<CMD_CLEAR>>, TRUE), Flush(FALSE)>>
    /\ result.kind = "Ok"

(* C12: right after construction the stored cursor is the position for     *)
(* which set_cursor sends the wire coordinates (1, 1), which is (0, 0).    *)

C12_InitialCursorIsHome ==
    op.name = "new" =>
        /\ log = <<Cmd(<<CMD_ESC, AT_SIGN>>, TRUE)>>
        /\ set_cursor(cursor_x, cursor_y, TRUE).entries
             = <<Cmd(<<CMD_US, DOLLAR, 1, 1>>, TRUE)>>
        /\ get_cursor = <<0, 0>>

(* C13: in wrap-around mode a pass of write_multi_line that leaves bytes   *)
(* to place after writing on the last row moves the cursor to column 0 of  *)
(* row 0.                                                                  *)

C13_WrapAroundReturnsToRowZero ==
    [][(/\ pc = "wml"
        /\ op.can_wrap_around
        /\ ~op.can_truncate
        /\ cursor_x < width
        /\ cursor_y = height - 1
        /\ pc' = "wml") => (cursor_x' = 0 /\ cursor_y' = 0)]_vars

(* The classification of section 4.2 computed in unbounded integers at the *)
(* current cursor, with the flags of the source.                           *)

FitOnFullLength(text, can_wrap_around, can_truncate) ==
    LET len == Len(text)
        space_on_line == width - cursor_x
        lines_left == height - (cursor_y + 1)
        short == IF can_wrap_around THEN "NeedsWrapAround"
                 ELSE IF can_truncate THEN "NeedsWrap"
                 ELSE "TooLong"
    IN  IF len <= width THEN "OneLine"
        ELSE IF lines_left <= 0 \/ space_on_line + lines_left * width < len THEN short
        ELSE "NeedsWrap"

(* C14: at every cursor on a row of the display get_text_fit returns, for  *)
(* every text, the classification computed on the full byte length.        *)

C14_FitUsesFullLength ==
    (pc = "idle" /\ cursor_y < height) =>
        \A t \in Texts, wa \in BOOLEAN, tr \in BOOLEAN :
            get_text_fit(t, wa, tr) = FitOnFullLength(t, wa, tr)

(* C15: at every cursor a write call can start from, the u8 expressions of *)
(* get_text_fit and write_multi_line have values within 0..255.            *)

C15_ArithmeticStaysInRange ==
    LET space_left_on_line == width - cursor_x
        lines_left == height - (cursor_y + 1)
    IN  pc \in {"idle", "wml"} =>
          /\ ~Ovf(space_left_on_line)
          /\ ~Ovf(cursor_y + 1)
          /\ ~Ovf(lines_left)
          /\ ~Ovf(lines_left * width)
          /\ ~Ovf(space_left_on_line + lines_left * width)

(* The text bytes the device received during the call, in order *)

RECURSIVE BytesFrom(_, _)
BytesFrom(entries, i) ==
    IF i > Len(entries) THEN <<>>
    ELSE (IF entries[i].ok THEN entries[i].bytes ELSE <<>>) \o BytesFrom(entries, i + 1)

WrittenText == BytesFrom(TextEntries, 1)

IsAscii(text) == \A i \in 1..Len(text) : text[i] < 128

(* C16: with wrap-around and truncation disabled and a transport that      *)
(* accepts every write, write_text of an ASCII text started on a row of    *)
(* the display either returns the text-too-long error having written       *)
(* nothing or writes every byte of the text and returns Ok: it never stops *)
(* in the error branch of write_multi_line after writing some chunks.      *)

C16_AllOrNothing ==
    (/\ CallOver({"write_text"})
     /\ ~op.can_wrap_around
     /\ ~op.can_truncate
     /\ pre[2] < height
     /\ IsAscii(op.text)
     /\ AllOk) =>
        \/ result.kind = "TextTooLong" /\ log = <<>>
        \/ result.kind = "Ok" /\ WrittenText = op.text

(* C17: with truncation enabled and wrap-around disabled, a text that      *)
(* exceeds the remaining capacity of a cursor on a row of the display is   *)
(* cut to it: the call writes the first RemainingCapacity bytes, parks the *)
(* cursor at (width, height) and returns Ok.                               *)

C17_TruncationFillsTheDisplay ==
    (/\ CallOver({"write_text"})
     /\ op.can_truncate
     /\ ~op.can_wrap_around
     /\ Len(op.text) > RemainingCapacity
     /\ pre[2] < height
     /\ AllOk) =>
        /\ result.kind = "Ok"
        /\ WrittenText = SubSeq(op.text, 1, RemainingCapacity)
        /\ get_cursor = <<width, height>>

(* C18: writeln never wraps: it sends no set-cursor command and leaves the *)
(* cursor alone, and it either writes the whole text, of at most width     *)
(* bytes, as one write and returns Ok, or returns an error having written  *)
(* nothing.                                                                *)

C18_WritelnNeverWraps ==
    (CallOver({"writeln"}) /\ AllOk) =>
        /\ CmdEntries = <<>>
        /\ get_cursor = pre
        /\ \/ /\ Len(op.text) <= width
              /\ log = <<Txt(op.text, TRUE)>>
              /\ result.kind = "Ok"
           \/ /\ log = <<>>
              /\ result.kind \in {"TextTooLong", "NeedsWrapError"}

(* What is left to do in write_multi_line's loop: two units per byte still *)
(* to place, one more while the cursor sits at the end of its line.        *)

LoopVariant == 2 * Len(remaining) + (IF cursor_x >= width THEN 1 ELSE 0)

(* C19: every pass of write_multi_line's loop that does not leave the loop *)
(* consumes at least one byte of the text, or finds the cursor at column   *)
(* width and moves it to column 0: the variant decreases on every pass, so *)
(* the loop ends after at most 2 * len + 1 passes.                         *)

C19_EveryPassMakesProgress ==
    [][(pc = "wml" /\ pc' = "wml") =>
         /\ LoopVariant' < LoopVariant
         /\ \/ Len(remaining') < Len(remaining)
            \/ cursor_x = width /\ cursor_x' = 0 /\ width >= 1]_vars

C19_Witness ==
    /\ Returned({"write_text"})
    /\ op.can_wrap_around
    /\ pre[1] = width
    /\ Len(log) >= 3
    /\ log[1] = Txt(<<>>, TRUE)
    /\ AllOk
    /\ WrittenText = op.text
    /\ result.kind = "Ok"

(* C20: a set_cursor call that returns an error because the transport      *)
(* write failed leaves the stored cursor as it was before the call.        *)

C20_FailedSetCursorKeepsCursor ==
    (Returned({"set_cursor"}) /\ result.kind = "Err") => get_cursor = pre

====
